---- MODULE Spec2Model ----
(***************************************************************************)
(* Model of the GitLab project export tool: src/export.py (the run over    *)
(* the selected projects) and src/gitlab_export/client.py (GitlabClient:   *)
(* catalog listing and the export trigger / status-check protocol);        *)
(* src/gitlab_export/gitlab.py (Api.project_export and its cached          *)
(* download_url); and the import, Api.project_import under                 *)
(* src/gitlab-project-import.py and GitlabClient.import_project.           *)
(*                                                                         *)
(* Strings that the code matches with re.match are sequences of one        *)
(* character strings; a Python dict is a sequence of <<key, value>> pairs  *)
(* with distinct keys, in insertion order.                                 *)
(***************************************************************************)
EXTENDS Integers, Sequences, FiniteSets, TLC

VARIABLES
    listing,          \* project_data entries the server returns, all pages in order
    projects,         \* c.config["gitlab"]["projects"]: include patterns
    exclude_projects, \* c.config["gitlab"]["exclude_projects"]
    force,            \* args.force
    noop,             \* args.noop
    retention_cfg,    \* c.config["backup"]["retention_period"], in days
    retention_period, \* the retention period main() works with
    archives,         \* ages in days of the .tar.gz files of the project directory
    pc,               \* position of main()
    all_projects,     \* dict path -> id returned by list_all_projects
    export_projects,  \* dict path -> id returned by get_projects_to_export
    cur,              \* index of the project the for loop of main() is at
    return_code,      \* the global return_code
    download_url,     \* what client.export_project returned
    trigger_response, \* the answer to the export-trigger request of the current project
    response,         \* the last response export_project received
    download_response,\* the answer to the download request of the current project
    dest_file,        \* the destination archive of the current project
    dest_existed,     \* os.path.isfile(dest_file) as setup_download_directory saw it
    nTrigger,         \* export-trigger requests issued for the current project
    nCheck,           \* status-check requests issued for the current project
    nDownload,        \* download requests issued for the current project
    allQueued,        \* every status check of the current project answered queued
    anyFinished,      \* some status check of it answered finished with _links
    onlyStartedBefore,\* every status check of it before the last answered started
    nWaits,           \* time.sleep(wait_between_exports) calls so far
    nExportFailed,    \* completed projects whose export gave no locator
    nDownloadFailed,  \* completed projects whose download was answered non-2xx
    nDestExists,      \* completed projects whose destination existed without -f
    nProcessed,       \* projects whose loop body has completed
    exit_status,      \* argument of sys.exit / status of the ended process
    exit_kind,        \* how the process ended
    last_request,     \* kind and project (position in the selection) of the latest request
    triggered,        \* positions in the selection that got an export-trigger request
    \* gitlab.py, one Api object
    max_tries_number, \* gitlab.max_tries_number of the configuration, the
                      \* argument of Api.project_export
    api_pc,           \* position of the caller of the Api object
    api_download_url, \* self.download_url
    max_tries,        \* the remaining-attempts counter of project_export
    api_response,     \* the last response project_export received
    api_result,       \* what the last completed project_export returned
    api_outcome,      \* the way the last project_export ended
    api_calls,        \* project_export calls started
    api_polls,        \* status checks of the current project_export call
    nStale,           \* consecutive status checks that left the counter running down
    everSucceeded,    \* some project_export call returned True
    \* one import: Api.project_import under gitlab-project-import.py, or
    \* GitlabClient.import_project called directly
    impl,             \* the implementation that runs the import
    args_ok,          \* project_path and filepath given, filepath is a file
    import_pc,        \* position of the import
    import_response,  \* the last response the import received
    import_polls,     \* import status checks made
    status_import,    \* how the import operation ended
    import_exit,      \* exit status of the process, -1 while it runs
    onlyStartedImport \* every earlier import status check answered started

vars == <<listing, projects, exclude_projects, force, noop, retention_cfg,
          retention_period, archives, onlyStartedBefore, pc, all_projects,
          export_projects, cur, return_code, download_url, trigger_response,
          response, download_response, dest_file, dest_existed, nTrigger, nCheck,
          nDownload, allQueued, anyFinished, nWaits, nExportFailed,
          nDownloadFailed, nDestExists, nProcessed, exit_status, exit_kind,
          last_request, triggered,
          max_tries_number, api_pc, api_download_url, max_tries, api_response,
          api_result, api_outcome, api_calls, api_polls, nStale, everSucceeded,
          impl, args_ok, import_pc, import_response, import_polls, status_import,
          import_exit, onlyStartedImport>>

\* The variables of the model of an import.
importState == <<impl, args_ok, import_pc, import_response, import_polls,
                 status_import, import_exit, onlyStartedImport>>

\* The variables of the model of Api.project_export.
exportState == <<max_tries_number, api_pc, api_download_url, max_tries,
                 api_response, api_result, api_outcome, api_calls, api_polls,
                 nStale, everSucceeded>>

\* The variables of the models of gitlab.py and of the import.
apiState == <<exportState, importState>>

\* The variables of the model of export.py and client.py.
runState == <<listing, projects, exclude_projects, force, noop, retention_cfg,
              retention_period, archives, onlyStartedBefore, pc, all_projects,
              export_projects, cur, return_code, download_url, trigger_response,
              response, download_response, dest_file, dest_existed, nTrigger,
              nCheck, nDownload, allQueued, anyFinished, nWaits, nExportFailed,
              nDownloadFailed, nDestExists, nProcessed, exit_status, exit_kind,
              last_request, triggered>>

\* The inputs of a run, which no action changes.
config == <<listing, projects, exclude_projects, force, noop, retention_cfg>>

(***************************************************************************)
(* Bounds of the model.                                                    *)
(***************************************************************************)
MaxInclude == 3
MaxExclude == 2
MaxTries == 2
MaxCalls == 2
MaxApiPolls == 5
MaxImportPolls == 4
MaxProjects == 130

(***************************************************************************)
(* Paths and patterns.                                                     *)
(***************************************************************************)
P_ax == <<"a", "/", "x">>
P_ay == <<"a", "/", "y">>
P_bz == <<"b", "/", "z">>

\* The projects of the server: id and path_with_namespace.
ProjectData ==
    { [id |-> 1, path_with_namespace |-> P_ax],
      [id |-> 2, path_with_namespace |-> P_ay],
      [id |-> 3, path_with_namespace |-> P_bz] }

\* Regular expressions of the configuration: literal characters and "."
Pat_a  == <<"a", "/">>
Pat_ax == <<"a", "/", "x">>
Pat_b  == <<"b", ".">>
Patterns == {Pat_a, Pat_ax, Pat_b}

BoundedSeq(S, n) == UNION { [1..k -> S] : k \in 0..n }

\* The listings of a server: each project at most once, in any order.
Listings ==
    { l \in BoundedSeq(ProjectData, Cardinality(ProjectData)) :
        \A i, j \in 1..Len(l) : l[i] = l[j] => i = j }

\* re.match(pattern, string): the pattern matches at position 0 and need
\* not consume the whole string; "." matches any one character.
ReMatch(pattern, string) ==
    /\ Len(pattern) <= Len(string)
    /\ \A i \in 1..Len(pattern) : pattern[i] = "." \/ pattern[i] = string[i]

(***************************************************************************)
(* Python dict and list operations used by the code.                       *)
(***************************************************************************)
DictKeys(d) == [i \in 1..Len(d) |-> d[i][1]]

DictHas(d, k) == \E i \in 1..Len(d) : d[i][1] = k

DictGet(d, k) == d[CHOOSE i \in 1..Len(d) : d[i][1] = k][2]

\* d[k] = v: an existing key keeps its position, a new key goes last.
DictSet(d, k, v) ==
    IF DictHas(d, k)
    THEN [i \in 1..Len(d) |-> IF d[i][1] = k THEN <<k, v>> ELSE d[i]]
    ELSE Append(d, <<k, v>>)

ListCount(l, x) == Cardinality({i \in 1..Len(l) : l[i] = x})

\* Variant of ListRemove that drops every occurrence of x.
ListRemove_All(l, x) == SelectSeq(l, LAMBDA y : y # x)

\* list.remove(x): drops the first occurrence of x (the caller checks presence).
ListRemove(l, x) ==
    LET i == CHOOSE j \in 1..Len(l) : l[j] = x /\ \A m \in 1..(j - 1) : l[m] # x
    IN  SubSeq(l, 1, i - 1) \o SubSeq(l, i + 1, Len(l))

(***************************************************************************)
(* GitlabClient.list_all_projects (path_glob = "").                        *)
(***************************************************************************)
\* projects[project_id] = ppath for every project_data of every page.
RECURSIVE CollectProjects(_, _)
CollectProjects(json, projs) ==
    IF json = <<>> THEN projs
    ELSE CollectProjects(Tail(json),
             DictSet(projs, Head(json).id, Head(json).path_with_namespace))

\* output[ppath] = id_ for the projects whose path matches the glob.
RECURSIVE FilterByGlob(_, _, _)
FilterByGlob(items, path_glob, output) ==
    IF items = <<>> THEN output
    ELSE FilterByGlob(Tail(items), path_glob,
             IF ReMatch(path_glob, Head(items)[2])
             THEN DictSet(output, Head(items)[2], Head(items)[1])
             ELSE output)

list_all_projects(json) == FilterByGlob(CollectProjects(json, <<>>), <<>>, <<>>)

(***************************************************************************)
(* get_projects_to_export.                                                 *)
(***************************************************************************)
\* Inner loop of the selection: append every catalog path the pattern matches.
AppendMatching(project_pattern, keys, working) ==
    working \o SelectSeq(keys, LAMBDA k : ReMatch(project_pattern, k))

\* Variant of SelectProjects with the loops swapped: catalog outer, patterns inner.
RECURSIVE SelectProjects_CatalogOuter(_, _, _)
SelectProjects_CatalogOuter(patterns, keys, working) ==
    IF keys = <<>> THEN working
    ELSE SelectProjects_CatalogOuter(patterns, Tail(keys),
             working \o [i \in 1..Len(SelectSeq(patterns,
                                  LAMBDA q : ReMatch(q, Head(keys)))) |-> Head(keys)])

\* Outer loop of the selection, include patterns in configured order.
RECURSIVE SelectProjects(_, _, _)
SelectProjects(patterns, keys, working) ==
    IF patterns = <<>> THEN working
    ELSE SelectProjects(Tail(patterns), keys,
                        AppendMatching(Head(patterns), keys, working))

\* export_projects.remove(gitlab_project): ValueError when it is not there.
RemoveProject(st, gitlab_project) ==
    IF st.raised THEN st
    ELSE IF ListCount(st.working, gitlab_project) = 0
         THEN [raised |-> TRUE, working |-> st.working]
         ELSE [raised |-> FALSE, working |-> ListRemove(st.working, gitlab_project)]

\* Inner loop of the exclusion: every catalog path the pattern matches.
RECURSIVE RemoveMatching(_, _, _)
RemoveMatching(ignored_project_pattern, keys, st) ==
    IF keys = <<>> THEN st
    ELSE RemoveMatching(ignored_project_pattern, Tail(keys),
             IF ReMatch(ignored_project_pattern, Head(keys))
             THEN RemoveProject(st, Head(keys))
             ELSE st)

\* Outer loop of the exclusion, exclude patterns in configured order.
RECURSIVE ExcludeProjects(_, _, _)
ExcludeProjects(patterns, keys, st) ==
    IF patterns = <<>> THEN st
    ELSE ExcludeProjects(Tail(patterns), keys,
                         RemoveMatching(Head(patterns), keys, st))

\* Variant of BuildOutput that returns the list itself, duplicates kept.
BuildOutput_KeepDuplicates(working, catalog, output) ==
    output \o [i \in 1..Len(working) |-> <<working[i], DictGet(catalog, working[i])>>]

\* output[project] = all_projects[project] for every project of the list.
RECURSIVE BuildOutput(_, _, _)
BuildOutput(working, catalog, output) ==
    IF working = <<>> THEN output
    ELSE BuildOutput(Tail(working), catalog,
             DictSet(output, Head(working), DictGet(catalog, Head(working))))

\* The working list after inclusion and exclusion, and the dict returned.
get_projects_to_export(catalog, include, exclude) ==
    LET keys     == DictKeys(catalog)
        selected == SelectProjects(include, keys, <<>>)
        st       == ExcludeProjects(exclude, keys,
                                    [raised |-> FALSE, working |-> selected])
    IN  [raised  |-> st.raised,
         working |-> st.working,
         output  |-> IF st.raised THEN <<>>
                     ELSE BuildOutput(st.working, catalog, <<>>)]

(***************************************************************************)
(* HTTP responses.  exc: requests raised a connection-level exception and  *)
(* there is no response; export_status "none": the body has no such field. *)
(***************************************************************************)
status_check_max == 12

StatusCodes == {200, 202, 304, 404}

ExportStatuses == {"none", "queued", "started", "finished", "regeneration_in_progress"}

NoResponse == [exc |-> FALSE, status_code |-> 0, export_status |-> "none", links |-> FALSE]

ConnectionError == [exc |-> TRUE, status_code |-> 0, export_status |-> "none", links |-> FALSE]

Http(code) == [exc |-> FALSE, status_code |-> code, export_status |-> "none", links |-> FALSE]

StatusBody(status, has_links) ==
    [exc |-> FALSE, status_code |-> 200, export_status |-> status, links |-> has_links]

\* Answers to POST /projects/{id}/export
TriggerResponses == {ConnectionError} \cup {Http(c) : c \in StatusCodes}

\* Answers to GET /projects/{id}/export
StatusResponses ==
    {ConnectionError} \cup {Http(c) : c \in StatusCodes \ {200}}
    \cup {StatusBody(s, l) : s \in ExportStatuses, l \in BOOLEAN}

\* Answers to the GET of the download locator
DownloadResponses == {ConnectionError} \cup {Http(c) : c \in StatusCodes}

\* GitlabClient._api_request: a connection-level exception, or the HTTPError
\* raise_for_status raises for 4xx and 5xx, is caught and ends the process.
ApiRequestExits(r) == r.exc \/ r.status_code >= 400

\* Variant of TriggerAccepted that takes every answer as accepted.
TriggerAccepted_Always(r) == TRUE

\* The test export_project makes on the answer to the export trigger.
TriggerAccepted(r) == 200 <= r.status_code /\ r.status_code < 300

\* Variant of StatusOk that takes every answer as 200.
StatusOk_Always(r) == TRUE

\* response.status_code == requests.codes.ok
StatusOk(r) == r.status_code = 200

\* Variant of ExportFinished that never sees the export finished.
ExportFinished_Never(r) == FALSE

\* Variant of ExportFinished that does not look for _links.
ExportFinished_StatusOnly(r) == r.export_status = "finished"

\* The success test of GitlabClient.export_project on a status-check body.
ExportFinished(r) == r.export_status = "finished" /\ r.links

\* Variant of MoreChecks that makes one pass too many.
MoreChecks_OneMore(n) == n <= status_check_max

\* for _ in range(status_check_max): another pass after n passes.
MoreChecks(n) == n < status_check_max

\* Variant of DownloadResult that reports success whatever the answer.
DownloadResult_AlwaysZero(r) == 0

\* What download_exported_project returns: 0 (success) or 1 (failure).
DownloadResult(r) == IF 200 <= r.status_code /\ r.status_code < 300 THEN 0 ELSE 1

(***************************************************************************)
(* gitlab.py: responses as Api.project_export sees them.  links is the     *)
(* _links object of the body, "none" when the body has none.               *)
(***************************************************************************)
ApiStatusCodes == {200, 202, 404}

ApiExportStatuses ==
    {"none", "queued", "started", "finished", "regeneration_in_progress", "failed"}

Links == {"L1", "L2"}

NoApiResponse == [exc |-> FALSE, status_code |-> 0, export_status |-> "none", links |-> "none"]

ApiConnectionError == [exc |-> TRUE, status_code |-> 0, export_status |-> "none", links |-> "none"]

ApiHttp(code) == [exc |-> FALSE, status_code |-> code, export_status |-> "none", links |-> "none"]

ApiBody(status, l) ==
    [exc |-> FALSE, status_code |-> 200, export_status |-> status, links |-> l]

\* Answers to the POST of Api.__api_export
ApiTriggerResponses == {ApiConnectionError} \cup {ApiHttp(c) : c \in ApiStatusCodes}

\* Answers to the GET of Api.__api_status
ApiStatusResponses ==
    {ApiConnectionError} \cup {ApiHttp(c) : c \in ApiStatusCodes \ {200}}
    \cup {ApiBody(st, l) : st \in ApiExportStatuses, l \in Links \cup {"none"}}

\* Variant of ClearedLocator that keeps the cached locator.
ClearedLocator_Keep(url) == url

\* Api.__api_export: self.download_url = None before the request.
ClearedLocator(url) == "None"

\* project_export: status == "finished" and "_links" in json_data
ApiExportFinished(r) == r.export_status = "finished" /\ r.links # "none"

\* Variant of ResetsBudget that never resets the counter.
ResetsBudget_Never(r) == FALSE

\* project_export: the statuses of the elif branch that sets max_tries
\* back to max_tries_number (reached when the export is not finished
\* with _links).
ResetsBudget(r) ==
    r.export_status \in {"queued", "finished", "started", "regeneration_in_progress"}

(***************************************************************************)
(* Import: responses as project_import / import_project see them.          *)
(***************************************************************************)
ImportStatusCodes == {200, 202, 304, 404}

ImportStatuses == {"none", "scheduled", "started", "finished", "failed"}

NoImportResponse == [exc |-> FALSE, status_code |-> 0, import_status |-> "none"]

ImportConnectionError == [exc |-> TRUE, status_code |-> 0, import_status |-> "none"]

ImportHttp(code) == [exc |-> FALSE, status_code |-> code, import_status |-> "none"]

ImportBody(status) == [exc |-> FALSE, status_code |-> 200, import_status |-> status]

\* Answers to the POST /projects/import
ImportSubmitResponses ==
    {ImportConnectionError} \cup {ImportHttp(c) : c \in ImportStatusCodes}

\* Answers to the GET /projects/<path>/import
ImportStatusResponses ==
    {ImportConnectionError} \cup {ImportHttp(c) : c \in ImportStatusCodes \ {200}}
    \cup {ImportBody(st) : st \in ImportStatuses}

\* Whether the request helper of the implementation ends the process on
\* this answer: the helpers of Api catch RequestException at the submit
\* only, and GitlabClient._api_request also raises for a status of 400 and
\* above.
ImportRequestExits(i, r) ==
    IF i = "Api" THEN r.exc ELSE (r.exc \/ r.status_code >= 400)

\* 200 <= response.status_code < 300 on the answer to the submit
ImportAccepted(r) == 200 <= r.status_code /\ r.status_code < 300

\* Variant of ImportStatusOk that takes any 2xx answer.
ImportStatusOk_Any2xx(r) == 200 <= r.status_code /\ r.status_code < 300

\* response.status_code == requests.codes.ok on the answer to a status check
ImportStatusOk(r) == r.status_code = 200

\* Variant of ImportFailed that never sees a failed import.
ImportFailed_Never(r) == FALSE

\* import_status == "failed"
ImportFailed(r) == r.import_status = "failed"

\* import_status == "finished"
ImportFinished(r) == r.import_status = "finished"

\* Variant of prepare_retention that lets an invalid value through.
prepare_retention_Unchecked(value) == value

\* prepare_config_variables: a retention period that is not a number >= 0
\* is ignored and replaced by 0.
prepare_retention(value) == IF value >= 0 THEN value ELSE 0

\* Variant of NeedsPurge that purges with a period of 0 too.
NeedsPurge_AlsoZero(period) == period >= 0

\* setup_download_directory: purge only with a positive retention period.
NeedsPurge(period) == period > 0

\* purge_old_files: a file goes when its modification time is more than
\* the retention period before now.
purge_old_files(ages, period) == {a \in ages : ~(a > period)}

\* Variant of NoProjects that never reports an empty catalog.
NoProjects_Never(catalog) == FALSE

\* get_projects_to_export: "if not all_projects".
NoProjects(catalog) == catalog = <<>>

(***************************************************************************)
(* Initial states.                                                         *)
(***************************************************************************)
Catalog3 ==
    << [id |-> 1, path_with_namespace |-> P_ax],
       [id |-> 2, path_with_namespace |-> P_ay],
       [id |-> 3, path_with_namespace |-> P_bz] >>

\* Configurations of the runs of main() that are explored.
RunListings == {<<>>, Catalog3}
RunIncludes == {<<Pat_ax>>, <<Pat_a>>, <<Pat_a, Pat_ax>>}
RunExcludes == {<<>>, <<Pat_ax>>, <<Pat_b>>}
RunRetentions == {-5, 0, 7}

\* The archives found in a project directory, by age in days.
ArchiveAges == {1, 10}

InitRunState ==
    /\ all_projects = <<>>
    /\ export_projects = <<>>
    /\ cur = 0
    /\ return_code = 0
    /\ download_url = "unset"
    /\ trigger_response = NoResponse
    /\ response = NoResponse
    /\ download_response = NoResponse
    /\ dest_file = "unknown"
    /\ dest_existed = FALSE
    /\ nTrigger = 0
    /\ nCheck = 0
    /\ nDownload = 0
    /\ allQueued = TRUE
    /\ anyFinished = FALSE
    /\ onlyStartedBefore = TRUE
    /\ retention_period = 0
    /\ archives = ArchiveAges
    /\ nWaits = 0
    /\ nExportFailed = 0
    /\ nDownloadFailed = 0
    /\ nDestExists = 0
    /\ nProcessed = 0
    /\ exit_status = 0
    /\ exit_kind = "running"
    /\ last_request = [kind |-> "none", project |-> 0]
    /\ triggered = {}

\* main() before it lists the catalog.
InitProgram ==
    /\ pc = "start"
    /\ InitRunState

\* A fresh Api object (Api.__init__) that nobody has called yet.
InitApiObject ==
    /\ api_pc = "idle"
    /\ api_download_url = "None"
    /\ max_tries = 0
    /\ api_response = NoApiResponse
    /\ api_result = "none"
    /\ api_outcome = "none"
    /\ api_calls = 0
    /\ api_polls = 0
    /\ nStale = 0
    /\ everSucceeded = FALSE

\* An import that has not started.
InitImportProgram ==
    /\ import_pc = "start"
    /\ import_response = NoImportResponse
    /\ import_polls = 0
    /\ status_import = "none"
    /\ import_exit = -1
    /\ onlyStartedImport = TRUE

Init ==
    /\ listing \in RunListings
    /\ projects \in RunIncludes
    /\ exclude_projects \in RunExcludes
    /\ force \in BOOLEAN
    /\ noop \in BOOLEAN
    /\ retention_cfg \in RunRetentions
    /\ InitProgram
    /\ max_tries_number = 0
    /\ InitApiObject
    /\ impl = "Api"
    /\ args_ok = FALSE
    /\ InitImportProgram

\* Inputs of the Project Selector alone.
InitSelector ==
    /\ listing \in Listings
    /\ projects \in BoundedSeq(Patterns, MaxInclude)
    /\ exclude_projects \in BoundedSeq(Patterns, MaxExclude)
    /\ force = FALSE
    /\ noop = FALSE
    /\ retention_cfg = 0
    /\ InitProgram
    /\ max_tries_number = 0
    /\ InitApiObject
    /\ impl = "Api"
    /\ args_ok = FALSE
    /\ InitImportProgram

\* The configuration of export.py when only the Api object is exercised.
IdleProgram ==
    /\ listing = <<>>
    /\ projects = <<>>
    /\ exclude_projects = <<>>
    /\ force = FALSE
    /\ noop = FALSE
    /\ retention_cfg = 0
    /\ InitProgram

\* Calls of project_export on one Api object.
InitApi ==
    /\ IdleProgram
    /\ max_tries_number \in 1..MaxTries
    /\ InitApiObject
    /\ impl = "Api"
    /\ args_ok = FALSE
    /\ InitImportProgram

\* Values of gitlab.max_tries_number in the configuration file; 12 is the
\* default of prepare_config_variables.
RunMaxTries == {3, 12}

\* A run of export.py whose configuration sets gitlab.max_tries_number.
InitConfigured ==
    /\ listing = Catalog3
    /\ projects = <<Pat_a>>
    /\ exclude_projects = <<>>
    /\ force = FALSE
    /\ noop = FALSE
    /\ retention_cfg = 0
    /\ InitProgram
    /\ max_tries_number \in RunMaxTries
    /\ InitApiObject
    /\ impl = "Api"
    /\ args_ok = FALSE
    /\ InitImportProgram

\* main() at its for loop over a selection of any size up to MaxProjects,
\* nothing processed yet.
InitTally ==
    /\ listing = <<>>
    /\ projects = <<>>
    /\ exclude_projects = <<>>
    /\ force \in BOOLEAN
    /\ noop = FALSE
    /\ retention_cfg = 0
    /\ pc = "loop"
    /\ InitRunState
    /\ max_tries_number = 0
    /\ InitApiObject
    /\ impl = "Api"
    /\ args_ok = FALSE
    /\ InitImportProgram

\* One import, by either implementation.
InitImport ==
    /\ IdleProgram
    /\ max_tries_number = 0
    /\ InitApiObject
    /\ impl \in {"Api", "GitlabClient"}
    /\ args_ok \in BOOLEAN
    /\ InitImportProgram


(***************************************************************************)
(* Actions.                                                                *)
(***************************************************************************)
\* What is recorded about the requests of the current project.
requests == <<trigger_response, response, download_response, nTrigger, nCheck,
              nDownload, allQueued, anyFinished, onlyStartedBefore,
              last_request, triggered>>

\* What is recorded about the projects whose loop body has completed.
tallies == <<nWaits, nExportFailed, nDownloadFailed, nDestExists, nProcessed>>

running == <<exit_status, exit_kind>>

\* The retention period in force and the archives on disk.
storage == <<retention_period, archives>>

\* The process ends: sys.exit(status) or an uncaught exception (status 1).
Exit(status, kind) ==
    /\ pc' = "exit"
    /\ exit_status' = status
    /\ exit_kind' = kind

\* main() up to the for loop: list the catalog, select, honour -n.
SelectProjectsToExport ==
    /\ pc = "start"
    /\ \E r \in {ConnectionError, Http(200), Http(404)} :
         IF ApiRequestExits(r)
         THEN /\ Exit(1, "SystemExit")
              /\ UNCHANGED <<all_projects, export_projects, cur>>
         ELSE LET catalog == list_all_projects(listing)
                  sel     == get_projects_to_export(catalog, projects, exclude_projects)
              IN  /\ all_projects' = catalog
                  /\ IF NoProjects(catalog)
                     THEN /\ Exit(1, "SystemExit")
                          /\ UNCHANGED <<export_projects, cur>>
                     ELSE IF sel.raised
                     THEN /\ Exit(1, "ValueError")
                          /\ UNCHANGED <<export_projects, cur>>
                     ELSE /\ export_projects' = sel.output
                          /\ IF noop
                             THEN Exit(0, "SystemExit") /\ UNCHANGED cur
                             ELSE IF sel.output = <<>>
                             THEN Exit(return_code, "SystemExit") /\ UNCHANGED cur
                             ELSE /\ pc' = "setup"
                                  /\ cur' = 1
                                  /\ UNCHANGED running
    /\ retention_period' = prepare_retention(retention_cfg)
    /\ UNCHANGED <<config, return_code, download_url, dest_file, dest_existed,
                   requests, tallies, archives,
                   apiState>>

\* setup_download_directory for the current project.
SetupDownloadDirectory ==
    /\ pc = "setup"
    /\ \E isfile \in BOOLEAN :
         /\ dest_existed' = isfile
         /\ IF isfile /\ ~force
            THEN /\ return_code' = return_code + 1
                 /\ dest_file' = "old"
                 /\ UNCHANGED archives
            ELSE /\ dest_file' = "absent"
                 /\ archives' = IF NeedsPurge(retention_period)
                                 THEN purge_old_files(archives, retention_period)
                                 ELSE archives
                 /\ UNCHANGED return_code
    /\ pc' = "trigger"
    /\ UNCHANGED <<config, all_projects, export_projects, cur, download_url,
                   requests, tallies, running, retention_period,
                   apiState>>

\* client.export_project returned None: export.py counts one failure.
ExportFailed ==
    /\ download_url' = "None"
    /\ return_code' = return_code + 1
    /\ pc' = "sleep"
    /\ UNCHANGED running

\* GitlabClient.export_project: the export-trigger request.
ScheduleExport ==
    /\ pc = "trigger"
    /\ \E r \in TriggerResponses :
         /\ trigger_response' = r
         /\ response' = r
         /\ nTrigger' = nTrigger + 1
         /\ last_request' = [kind |-> "trigger", project |-> cur]
         /\ triggered' = triggered \cup {cur}
         /\ IF ApiRequestExits(r)
            THEN /\ Exit(1, "SystemExit")
                 /\ UNCHANGED <<download_url, return_code>>
            ELSE IF ~TriggerAccepted(r)
            THEN \* return False; False is not None, so export.py hands it to
                 \* requests.get, which raises MissingSchema before sending.
                 /\ download_url' = "False"
                 /\ Exit(1, "MissingSchema")
                 /\ UNCHANGED return_code
            ELSE IF MoreChecks(0)
            THEN /\ pc' = "poll"
                 /\ UNCHANGED <<download_url, return_code, running>>
            ELSE ExportFailed
    /\ UNCHANGED <<config, all_projects, export_projects, cur, dest_file,
                   dest_existed, download_response, nCheck, nDownload, allQueued,
                   anyFinished, onlyStartedBefore, tallies, storage,
                   apiState>>

\* GitlabClient.export_project: one pass of the status-check loop.
GetExportStatus ==
    /\ pc = "poll"
    /\ \E r \in StatusResponses :
         /\ response' = r
         /\ nCheck' = nCheck + 1
         /\ last_request' = [kind |-> "status", project |-> cur]
         /\ UNCHANGED triggered
         /\ allQueued' = (allQueued /\ ~r.exc /\ r.status_code = 200
                          /\ r.export_status = "queued")
         /\ onlyStartedBefore' = (onlyStartedBefore /\
                (nCheck = 0 \/ (response.status_code = 200
                                /\ response.export_status = "started")))
         /\ anyFinished' = (anyFinished \/ (~r.exc /\ r.status_code = 200
                          /\ r.export_status = "finished" /\ r.links))
         /\ IF ApiRequestExits(r)
            THEN /\ Exit(1, "SystemExit")
                 /\ UNCHANGED <<download_url, return_code>>
            ELSE IF ~StatusOk(r)
            THEN ExportFailed
            ELSE IF ExportFinished(r)
            THEN /\ download_url' = "url"
                 /\ pc' = "download"
                 /\ UNCHANGED <<return_code, running>>
            ELSE IF MoreChecks(nCheck + 1)
            THEN /\ pc' = "poll"
                 /\ UNCHANGED <<download_url, return_code, running>>
            ELSE ExportFailed
    /\ UNCHANGED <<config, all_projects, export_projects, cur, dest_file,
                   dest_existed, trigger_response, download_response, nTrigger,
                   nDownload, tallies, storage,
                   apiState>>

\* download_exported_project, called with the locator export returned.
DownloadExportedProject ==
    /\ pc = "download"
    /\ \E r \in DownloadResponses :
         /\ download_response' = r
         /\ nDownload' = nDownload + 1
         /\ last_request' = [kind |-> "download", project |-> cur]
         /\ UNCHANGED triggered
         /\ IF r.exc
            THEN /\ Exit(1, "RequestException")
                 /\ UNCHANGED <<dest_file, return_code>>
            ELSE /\ return_code' = return_code + DownloadResult(r)
                 /\ dest_file' = IF DownloadResult(r) = 0 THEN "new" ELSE dest_file
                 /\ pc' = "sleep"
                 /\ UNCHANGED running
    /\ UNCHANGED <<config, all_projects, export_projects, cur, download_url,
                   dest_existed, trigger_response, response, nTrigger, nCheck,
                   allQueued, anyFinished, onlyStartedBefore, tallies, storage,
                   apiState>>

\* Variant of NextProject that stays on the same project.
NextProject_Same(c) == c

\* for project_name, project_id in export_projects.items(): the position
\* of the project that follows position c.
NextProject(c) == c + 1

\* End of the loop body: time.sleep(wait_between_exports), then the next
\* project, or sys.exit(return_code) after the last one.
WaitBetweenExports ==
    /\ pc = "sleep"
    /\ nWaits' = nWaits + 1
    /\ nProcessed' = nProcessed + 1
    /\ nExportFailed' = nExportFailed + (IF download_url = "None" THEN 1 ELSE 0)
    /\ nDownloadFailed' = nDownloadFailed +
           (IF nDownload > 0 /\ ~(200 <= download_response.status_code
                                  /\ download_response.status_code < 300)
            THEN 1 ELSE 0)
    /\ nDestExists' = nDestExists + (IF dest_existed /\ ~force THEN 1 ELSE 0)
    /\ IF cur < Len(export_projects)
       THEN /\ cur' = NextProject(cur)
            /\ pc' = "setup"
            /\ download_url' = "unset"
            /\ trigger_response' = NoResponse
            /\ response' = NoResponse
            /\ download_response' = NoResponse
            /\ dest_file' = "unknown"
            /\ dest_existed' = FALSE
            /\ nTrigger' = 0
            /\ nCheck' = 0
            /\ nDownload' = 0
            /\ allQueued' = TRUE
            /\ anyFinished' = FALSE
            /\ onlyStartedBefore' = TRUE
            /\ UNCHANGED <<running, last_request, triggered>>
       ELSE /\ Exit(return_code, "SystemExit")
            /\ UNCHANGED <<cur, download_url, dest_file, dest_existed, requests>>
    /\ UNCHANGED <<config, all_projects, export_projects, return_code, storage,
                   apiState>>

Next ==
    \/ SelectProjectsToExport
    \/ SetupDownloadDirectory
    \/ ScheduleExport
    \/ GetExportStatus
    \/ DownloadExportedProject
    \/ WaitBetweenExports

\* A run of export.py
Spec == Init /\ [][Next]_vars

\* A run of export.py under a configured gitlab.max_tries_number
SpecConfigured == InitConfigured /\ [][Next]_vars

\* The exit status the operating system keeps of sys.exit(status): its low
\* eight bits.
OsExitStatus(status) == status % 256

\* One pass of the for loop of main() reduced to what it adds to
\* return_code: 1 in setup_download_directory when the destination file
\* exists and -f is not given, and 1 in export_project when the export or
\* the download failed.
ProcessProject ==
    /\ pc = "loop"
    /\ cur < MaxProjects
    /\ cur' = cur + 1
    /\ nProcessed' = nProcessed + 1
    /\ \E isfile \in BOOLEAN, failed \in BOOLEAN :
         return_code' = return_code + (IF isfile /\ ~force THEN 1 ELSE 0)
                                    + (IF failed THEN 1 ELSE 0)
    /\ UNCHANGED <<config, all_projects, export_projects, pc, download_url,
                   dest_file, dest_existed, requests, nWaits, nExportFailed,
                   nDownloadFailed, nDestExists, running, storage, apiState>>

\* sys.exit(return_code) after the last project of the selection.
FinishRun ==
    /\ pc = "loop"
    /\ Exit(return_code, "SystemExit")
    /\ UNCHANGED <<config, all_projects, export_projects, cur, return_code,
                   download_url, dest_file, dest_existed, requests, tallies,
                   storage, apiState>>

NextTally == ProcessProject \/ FinishRun

\* The failure counter of a run over many projects, and its exit status
SpecTally == InitTally /\ [][NextTally]_vars

\* The Project Selector on its own, over all its bounded inputs
NextSelector == SelectProjectsToExport

SpecSelector == InitSelector /\ [][NextSelector]_vars

(***************************************************************************)
(* Properties.                                                             *)
(***************************************************************************)
Is2xx(r) == ~r.exc /\ 200 <= r.status_code /\ r.status_code < 300

\* A non-2xx answer: there is a response and its status is outside 200..299.
IsNon2xx(r) == ~r.exc /\ ~(200 <= r.status_code /\ r.status_code < 300)

\* main() reached its final sys.exit(return_code) after the whole selection.
RunCompleted ==
    /\ pc = "exit"
    /\ export_projects # <<>>
    /\ nProcessed = Len(export_projects)

\* C1: after an accepted export trigger at most status_check_max status
\* checks are issued; when export_project has returned and no check was
\* answered finished with _links, it returned None; and when it has
\* returned and every check was answered queued, there were exactly
\* status_check_max checks.
C1_PollBudget ==
    /\ nCheck <= status_check_max
    /\ (download_url \in {"None", "url"} /\ ~anyFinished) => download_url = "None"
    /\ (download_url \in {"None", "url"} /\ allQueued) => nCheck = status_check_max

C1_Witness ==
    /\ download_url = "None"
    /\ allQueued
    /\ nCheck = status_check_max
    /\ Is2xx(trigger_response)

\* C2 (as claimed): a connection failure or a non-2xx answer to the export
\* trigger or to a status check of a project adds one to the failure
\* counter and does not end the run.
C2_PerProjectErrorContinues ==
    [][(pc \in {"trigger", "poll"} /\ (response'.exc \/ IsNon2xx(response')))
          => (pc' # "exit" /\ return_code' = return_code + 1)]_vars

\* C3: export_project returns a locator only from a status-check response
\* that is finished and has _links; after a response that is finished
\* without _links, with budget left, the next step is another status check.
C3_FinishedNeedsLinks ==
    /\ [](download_url = "url" =>
            (response.status_code = 200 /\ response.export_status = "finished"
             /\ response.links))
    /\ [][(pc = "poll" /\ response'.status_code = 200
           /\ response'.export_status = "finished" /\ ~response'.links
           /\ nCheck' < status_check_max)
             => (pc' = "poll" /\ download_url' = "unset")]_vars

C3_Witness ==
    /\ pc = "poll"
    /\ nCheck > 0
    /\ response.export_status = "finished"
    /\ ~response.links

\* C4 (as claimed): when the export of a project fails (trigger answered
\* non-2xx, a status check answered non-2xx, or the budget exhausted) the
\* export yields no locator, no download request is issued for the project
\* and the failure counter grows by exactly one.
C4_FailedExportCountsOnce ==
    [][((pc = "trigger" /\ IsNon2xx(response'))
        \/ (pc = "poll" /\ IsNon2xx(response'))
        \/ (pc = "poll" /\ Is2xx(response') /\ ~ExportFinished(response')
            /\ nCheck' = status_check_max))
          => (download_url' = "None" /\ nDownload' = 0
              /\ return_code' = return_code + 1)]_vars

\* C5 (as claimed): a project whose destination file exists, without
\* force-overwrite, gets no export-trigger, status-check or download request
\* and its file stays as it was.
C5_ExistingDestinationSkipped ==
    (dest_existed /\ ~force) =>
        (nTrigger = 0 /\ nCheck = 0 /\ nDownload = 0 /\ dest_file = "old")

(***************************************************************************)
(* Properties of the Project Selector.                                     *)
(***************************************************************************)
AllPaths == {pd.path_with_namespace : pd \in ProjectData}

CatalogPaths == {listing[i].path_with_namespace : i \in 1..Len(listing)}

\* get_projects_to_export has returned its dict to main().
SelectorReturned ==
    /\ pc # "start"
    /\ all_projects # <<>>
    /\ exit_kind # "ValueError"

\* Number of include / exclude patterns that match the path.
NInclude(p) == Cardinality({i \in 1..Len(projects) : ReMatch(projects[i], p)})

NExclude(p) ==
    Cardinality({i \in 1..Len(exclude_projects) : ReMatch(exclude_projects[i], p)})

\* Number of entries of the returned selection that hold the path.
Occurrences(p) ==
    Cardinality({i \in 1..Len(export_projects) : export_projects[i][1] = p})

DuplicateScenario ==
    /\ listing = Catalog3
    /\ projects = <<Pat_a, Pat_ax>>
    /\ exclude_projects = <<>>

\* C6 (as claimed): the returned selection holds a path as many times as
\* include patterns match it, minus the removals applied by exclusion; in
\* the scenario a/x is there twice and a/y once.
C6_DuplicatesPreserved ==
    SelectorReturned =>
        /\ \A p \in CatalogPaths : Occurrences(p) = NInclude(p) - NExclude(p)
        /\ DuplicateScenario => (Occurrences(P_ax) = 2 /\ Occurrences(P_ay) = 1)

\* C6 (amended): the returned selection holds each path at most once: a
\* catalog path is in it once when more include patterns match it than
\* removals were applied to it, and not at all otherwise; in the scenario
\* it is a/x, a/y, each once.
C6_DuplicatesCollapsed ==
    SelectorReturned =>
        /\ \A p \in AllPaths :
             Occurrences(p) =
                 IF p \in CatalogPaths /\ NInclude(p) - NExclude(p) > 0 THEN 1 ELSE 0
        /\ DuplicateScenario => DictKeys(export_projects) = <<P_ax, P_ay>>

C6_Witness == SelectorReturned /\ DuplicateScenario

\* The one exclude pattern of the configuration matches the path.
Excluded(p) == ReMatch(exclude_projects[1], p)

\* Occurrences of the path in the selection returned without any exclusion.
OccurrencesUnexcluded(q) ==
    LET out == get_projects_to_export(all_projects, projects, <<>>).output
    IN  Cardinality({i \in 1..Len(out) : out[i][1] = q})

\* C7 (as claimed): with one exclude pattern, a path it matches that was
\* included k >= 1 times is k-1 times in the returned selection, and the
\* occurrences of the paths it does not match are unchanged.
C7_ExcludeRemovesOneOfK ==
    (SelectorReturned /\ Len(exclude_projects) = 1) =>
        \A p \in CatalogPaths :
            IF Excluded(p)
            THEN NInclude(p) >= 1 => Occurrences(p) = NInclude(p) - 1
            ELSE Occurrences(p) = OccurrencesUnexcluded(p)

\* C7 (amended): with one exclude pattern, when the selector returns, a
\* path it matches that was included once is absent from the returned
\* selection, one included k > 1 times is in it exactly once, and the
\* occurrences of the paths it does not match are unchanged.
C7_ExcludeRemovesOneFromList ==
    (SelectorReturned /\ Len(exclude_projects) = 1) =>
        \A p \in CatalogPaths :
            IF Excluded(p)
            THEN /\ NInclude(p) >= 1
                 /\ Occurrences(p) = IF NInclude(p) > 1 THEN 1 ELSE 0
            ELSE Occurrences(p) = OccurrencesUnexcluded(p)

C7_Witness ==
    /\ SelectorReturned
    /\ Len(exclude_projects) = 1
    /\ \E p \in CatalogPaths : Excluded(p) /\ NInclude(p) = 3 /\ Occurrences(p) = 1
    /\ \E q \in CatalogPaths : ~Excluded(q) /\ Occurrences(q) = 1

PosInListing(p) == CHOOSE i \in 1..Len(listing) : listing[i].path_with_namespace = p

IdInListing(p) == listing[PosInListing(p)].id

FirstInclude(p) ==
    CHOOSE i \in 1..Len(projects) :
        ReMatch(projects[i], p) /\ \A j \in 1..(i - 1) : ~ReMatch(projects[j], p)

\* p is discovered before q: by an earlier include pattern, or by the same
\* one and earlier in the catalog.
DiscoveredBefore(p, q) ==
    \/ FirstInclude(p) < FirstInclude(q)
    \/ FirstInclude(p) = FirstInclude(q) /\ PosInListing(p) < PosInListing(q)

\* C8: without exclude patterns the returned selection holds only catalog
\* paths that match an include pattern, each with the id of the catalog,
\* holds every such path, and lists them in discovery order; for the
\* catalog a/x:1, a/y:2, b/z:3 and include "a/" it is a/x:1, a/y:2.
C8_DiscoveryOrder ==
    (SelectorReturned /\ exclude_projects = <<>>) =>
        /\ \A i \in 1..Len(export_projects) :
             /\ export_projects[i][1] \in CatalogPaths
             /\ NInclude(export_projects[i][1]) > 0
             /\ export_projects[i][2] = IdInListing(export_projects[i][1])
        /\ \A p \in CatalogPaths : NInclude(p) > 0 => Occurrences(p) >= 1
        /\ \A i, j \in 1..Len(export_projects) :
             i < j => DiscoveredBefore(export_projects[i][1], export_projects[j][1])
        /\ (listing = Catalog3 /\ projects = <<Pat_a>>) =>
             export_projects = << <<P_ax, 1>>, <<P_ay, 2>> >>

C8_Witness ==
    /\ SelectorReturned
    /\ exclude_projects = <<>>
    /\ listing = Catalog3
    /\ projects = <<Pat_a>>
    /\ Len(export_projects) = 2

(***************************************************************************)
(* Properties of the run, continued.                                       *)
(***************************************************************************)
\* C9: a run that processed its whole selection exits with the number of
\* failed operations: one per export without locator, one per download
\* answered non-2xx, one per destination that existed without -f; the
\* status is 0 exactly when there was none of them.
C9_ExitStatusCountsFailures ==
    RunCompleted =>
        /\ exit_status = nExportFailed + nDownloadFailed + nDestExists
        /\ exit_status = 0 <=>
             (nExportFailed = 0 /\ nDownloadFailed = 0 /\ nDestExists = 0)

C9_Witness ==
    /\ RunCompleted
    /\ nExportFailed > 0
    /\ nDownloadFailed > 0
    /\ nDestExists > 0
    /\ exit_status = 3

\* C10: after a non-2xx answer to the export trigger of a project no
\* status check is issued for it.
C10_RejectedTriggerNoPolling ==
    (nTrigger > 0 /\ IsNon2xx(trigger_response)) => nCheck = 0

C10_Witness ==
    /\ nTrigger = 1
    /\ trigger_response.status_code = 304
    /\ pc = "exit"

\* C11: a non-2xx answer to a status check ends the polling of the project
\* at once, whatever budget remains: no locator is returned, the export
\* ends in failure (None to the caller, or the process ended with a
\* non-zero status) and no further status check is issued for the project.
C11_Non2xxStopsPolling ==
    /\ [][(pc = "poll" /\ IsNon2xx(response'))
            => /\ pc' \in {"sleep", "exit"}
               /\ download_url' # "url"
               /\ pc' = "sleep" => download_url' = "None"
               /\ pc' = "exit" => exit_status' # 0]_vars
    /\ [][(nCheck > 0 /\ IsNon2xx(response)) => nCheck' \in {nCheck, 0}]_vars

C11_Witness ==
    /\ nCheck > 0
    /\ nCheck < status_check_max
    /\ response.status_code = 304
    /\ download_url = "None"
    /\ pc = "sleep"

\* C12: the first status check answered finished with _links ends the
\* polling with the locator and no further status check; after the answers
\* started, started, finished-with-_links the export has succeeded with
\* exactly three status checks.
C12_StopsAtFirstFinished ==
    /\ [](anyFinished =>
            (download_url = "url" /\ ExportFinished(response) /\ pc # "poll"))
    /\ [][download_url = "url" => nCheck' \in {nCheck, 0}]_vars
    /\ []((onlyStartedBefore /\ nCheck = 3 /\ StatusOk(response)
           /\ response.export_status = "finished" /\ response.links)
            => (download_url = "url" /\ nCheck < status_check_max))

C12_Witness ==
    /\ pc = "download"
    /\ download_url = "url"
    /\ onlyStartedBefore
    /\ nCheck = 3

\* C16: with an empty catalog the run ends with a non-zero status before
\* any project is processed; with a non-empty catalog and an empty
\* selection it issues no export request and ends with status 0.
C16_EmptyCatalogVsEmptySelection ==
    /\ (pc # "start" /\ listing = <<>>) =>
           (pc = "exit" /\ exit_status # 0 /\ cur = 0 /\ nTrigger = 0)
    /\ (SelectorReturned /\ export_projects = <<>>) =>
           (pc = "exit" /\ exit_status = 0 /\ cur = 0 /\ nTrigger = 0)

C16_Witness ==
    /\ SelectorReturned
    /\ export_projects = <<>>
    /\ ~noop
    /\ pc = "exit"

\* C17 (as claimed): a run over n selected projects makes n-1
\* inter-project waits, none after the last project.
C17_WaitsBetweenOnly ==
    RunCompleted => nWaits = Len(export_projects) - 1

\* C18: a negative retention period is replaced by 0, and with a
\* retention period of 0 pruning deletes no archive.
C18_InvalidRetentionIgnored ==
    /\ (pc # "start" /\ retention_cfg < 0) => retention_period = 0
    /\ (pc # "start" /\ retention_period = 0) => archives = ArchiveAges

C18_Witness ==
    /\ RunCompleted
    /\ retention_cfg = -5
    /\ retention_period = 0
    /\ archives = ArchiveAges

(***************************************************************************)
(* gitlab.py: Api.project_export, called repeatedly on one Api object.     *)
(***************************************************************************)
\* project_export returns to its caller.
ApiReturn(result, outcome) ==
    /\ api_pc' = "idle"
    /\ api_result' = result
    /\ api_outcome' = outcome
    /\ everSucceeded' = (everSucceeded \/ result = "True")

\* project_export up to its loop: __api_export and the test of its answer.
ApiExport ==
    /\ api_pc = "idle"
    /\ api_calls < MaxCalls
    /\ api_calls' = api_calls + 1
    /\ api_polls' = 0
    /\ nStale' = 0
    /\ api_download_url' = ClearedLocator(api_download_url)
    /\ \E r \in ApiTriggerResponses :
         /\ api_response' = r
         /\ IF r.exc
            THEN \* __api_export catches the exception: sys.exit(1)
                 /\ api_pc' = "exit"
                 /\ api_outcome' = "SystemExit"
                 /\ UNCHANGED <<api_result, max_tries, everSucceeded>>
            ELSE IF 200 <= r.status_code /\ r.status_code < 300
            THEN /\ max_tries' = max_tries_number
                 /\ IF max_tries_number # 0
                    THEN /\ api_pc' = "poll"
                         /\ UNCHANGED <<api_result, api_outcome, everSucceeded>>
                    ELSE ApiReturn("False", "exhausted")
            ELSE /\ ApiReturn("False", "rejected")
                 /\ UNCHANGED max_tries
    /\ UNCHANGED <<max_tries_number, runState, importState>>

\* One pass of the while loop of project_export, and what follows the loop
\* when the pass ends it.
ApiStatus ==
    /\ api_pc = "poll"
    /\ api_polls < MaxApiPolls
    /\ api_polls' = api_polls + 1
    /\ \E r \in ApiStatusResponses :
         /\ api_response' = r
         /\ IF r.exc
            THEN /\ max_tries' = max_tries - 1
                 /\ ApiReturn("False", "exception")
                 /\ UNCHANGED <<api_download_url, nStale>>
            ELSE IF r.status_code # 200
            THEN /\ max_tries' = max_tries - 1
                 /\ ApiReturn("False", "bad_status")
                 /\ UNCHANGED <<api_download_url, nStale>>
            ELSE IF ApiExportFinished(r)
            THEN /\ max_tries' = max_tries - 1
                 /\ api_download_url' = r.links
                 /\ ApiReturn("True", "success")
                 /\ UNCHANGED nStale
            ELSE /\ max_tries' = IF ResetsBudget(r) THEN max_tries_number
                                 ELSE max_tries - 1
                 /\ nStale' = IF r.export_status \in
                                   {"queued", "finished", "started",
                                    "regeneration_in_progress"}
                              THEN 0 ELSE nStale + 1
                 /\ IF max_tries' # 0
                    THEN UNCHANGED <<api_pc, api_result, api_outcome, everSucceeded>>
                    ELSE ApiReturn("False", "exhausted")
                 /\ UNCHANGED api_download_url
    /\ UNCHANGED <<max_tries_number, api_calls, runState, importState>>

NextApi == ApiExport \/ ApiStatus

\* Calls of Api.project_export on one Api object
SpecApi == InitApi /\ [][NextApi]_vars

\* A status check of project_export happens in this step.
ApiPollStep == api_pc = "poll" /\ api_polls' = api_polls + 1

\* C19: on one Api object download_url is set only while the most recent
\* project_export call is one that returned True, and it is then the _links
\* of the last status response of that call; from the submission of an
\* export until its success the locator is empty, so a call that failed or
\* ended the process leaves no locator of an earlier call behind.
C19_LocatorOnlyFromLastSuccess ==
    /\ api_download_url # "None"
         => /\ api_pc = "idle"
            /\ api_result = "True"
            /\ api_outcome = "success"
            /\ ApiExportFinished(api_response)
            /\ api_download_url = api_response.links
    /\ (api_calls > 0 /\ (api_pc # "idle" \/ api_result # "True"))
         => api_download_url = "None"

\* C19 happens: a call that succeeded is followed by a call that failed, and
\* the locator is empty afterwards.
C19_Witness ==
    /\ everSucceeded
    /\ api_calls = 2
    /\ api_pc = "idle"
    /\ api_result = "False"
    /\ api_download_url = "None"

\* C20 as stated: a status check sets the counter back to max_tries_number
\* exactly when it reports queued, started or regeneration_in_progress.
C20_ResetOnStillWorkingOnly ==
    [][ApiPollStep
         => ((max_tries' = max_tries_number)
               <=> api_response'.export_status
                     \in {"queued", "started", "regeneration_in_progress"})]_vars

\* C20 amended: a status check sets the counter back to max_tries_number
\* exactly when it answers 200 with status queued, started,
\* regeneration_in_progress, or finished without _links; while the call is
\* polling the counter is max_tries_number less the number of consecutive
\* checks that did not reset it, and the call fails by exhaustion exactly
\* when that number reaches max_tries_number.
C20_ResetOnListedStatuses ==
    /\ [][ApiPollStep
           => ((max_tries' = max_tries_number)
                 <=> /\ ~api_response'.exc
                     /\ api_response'.status_code = 200
                     /\ ~ApiExportFinished(api_response')
                     /\ api_response'.export_status
                          \in {"queued", "started", "regeneration_in_progress",
                               "finished"})]_vars
    /\ [](api_pc = "poll" => (nStale < max_tries_number
                              /\ max_tries = max_tries_number - nStale))
    /\ []((api_pc = "idle" /\ api_outcome = "exhausted")
            => (nStale = max_tries_number /\ api_result = "False"))
    /\ [][(ApiPollStep /\ nStale' = max_tries_number)
            => (api_pc' = "idle" /\ api_outcome' = "exhausted")]_vars

\* C20 happens: with max_tries_number = 1 a status check answered finished
\* without _links, and the call is still polling with a full counter.
C20_Witness ==
    /\ api_pc = "poll"
    /\ max_tries_number = 1
    /\ api_polls = 2
    /\ api_response.export_status = "finished"
    /\ api_response.links = "none"
    /\ max_tries = 1

(***************************************************************************)
(* Import: Api.project_import as gitlab-project-import.py calls it, and    *)
(* GitlabClient.import_project.                                            *)
(***************************************************************************)
\* The import operation returns result to its caller; the script
\* gitlab-project-import.py turns the result of Api.project_import into the
\* exit status.
ImportReturn(result) ==
    /\ import_pc' = "done"
    /\ status_import' = result
    /\ import_exit' = IF impl = "Api"
                      THEN (IF result = "True" THEN 0 ELSE 1)
                      ELSE import_exit

\* The process ends inside the import operation.
ImportAbort(kind) ==
    /\ import_pc' = "done"
    /\ status_import' = kind
    /\ import_exit' = 1

\* The argument test of the script, the submit, and the test of its answer.
ImportSubmit ==
    /\ import_pc = "start"
    /\ IF impl = "Api" /\ ~args_ok
       THEN /\ import_pc' = "done"
            /\ import_exit' = 1
            /\ UNCHANGED <<import_response, status_import>>
       ELSE \E r \in ImportSubmitResponses :
              /\ import_response' = r
              /\ IF ImportRequestExits(impl, r)
                 THEN ImportAbort("SystemExit")
                 ELSE IF ~ImportAccepted(r)
                 THEN ImportReturn("False")
                 ELSE /\ import_pc' = "poll"
                      /\ UNCHANGED <<status_import, import_exit>>
    /\ UNCHANGED <<impl, args_ok, import_polls, onlyStartedImport, runState,
                   exportState>>

\* One pass of the while True loop of the import.
ImportStatus ==
    /\ import_pc = "poll"
    /\ import_polls < MaxImportPolls
    /\ import_polls' = import_polls + 1
    /\ onlyStartedImport' =
         (onlyStartedImport
            /\ (import_polls = 0 \/ (import_response.status_code = 200
                                     /\ import_response.import_status = "started")))
    /\ \E r \in ImportStatusResponses :
         /\ import_response' = r
         /\ IF r.exc /\ impl = "Api"
            THEN \* Api.__api_import_status lets the exception escape
                 ImportAbort("RequestException")
            ELSE IF ImportRequestExits(impl, r)
            THEN ImportAbort("SystemExit")
            ELSE IF ~ImportStatusOk(r)
            THEN ImportReturn("False")
            ELSE IF ImportFinished(r)
            THEN ImportReturn("True")
            ELSE IF ImportFailed(r)
            THEN ImportReturn("False")
            ELSE UNCHANGED <<import_pc, status_import, import_exit>>
    /\ UNCHANGED <<impl, args_ok, runState, exportState>>

NextImport == ImportSubmit \/ ImportStatus

\* One import by Api.project_import or by GitlabClient.import_project
SpecImport == InitImport /\ [][NextImport]_vars

\* An import status check happens in this step.
ImportPollStep == import_pc = "poll" /\ import_polls' = import_polls + 1

\* The last import status check answered 200 with the given status.
ImportAnswered(status) ==
    /\ import_polls > 0
    /\ ~import_response.exc
    /\ import_response.status_code = 200
    /\ import_response.import_status = status

\* C13: the import reports success exactly when a status check answered
\* finished (the import command then exits 0), reports failure when a status
\* check answered failed (the command exits 1), and no status check follows
\* the first finished or failed answer.
C13_ImportEndsAtFinishedOrFailed ==
    /\ [](status_import = "True" => ImportAnswered("finished"))
    /\ [](ImportAnswered("finished")
            => /\ import_pc = "done"
               /\ status_import = "True"
               /\ impl = "Api" => import_exit = 0)
    /\ [](ImportAnswered("failed")
            => /\ import_pc = "done"
               /\ status_import = "False"
               /\ impl = "Api" => import_exit = 1)
    /\ [][(ImportAnswered("finished") \/ ImportAnswered("failed"))
            => import_polls' = import_polls]_vars

\* C13 happens: the status checks answer started, started, finished and the
\* import command exits 0 after three checks.
C13_Witness ==
    /\ impl = "Api"
    /\ onlyStartedImport
    /\ import_polls = 3
    /\ ImportAnswered("finished")
    /\ status_import = "True"
    /\ import_exit = 0

\* C14 as stated: a status check answered 2xx with a status other than
\* finished and failed (or with none) is followed by more polling.
C14_PollsWhile2xx ==
    [][(ImportPollStep /\ Is2xx(import_response')
        /\ import_response'.import_status \notin {"finished", "failed"})
         => import_pc' = "poll"]_vars

\* C14 amended: a status check answered 200 with a status other than finished
\* and failed (or with none) leaves the import polling, whatever the number
\* of checks made; a status check answered with any other status code, 2xx
\* or not, ends the import; and the import operation returns after status
\* checks only when the last one answered finished, failed or a status code
\* other than 200.
C14_PollsWhile200 ==
    /\ [][(ImportPollStep /\ ~import_response'.exc
           /\ import_response'.status_code = 200
           /\ import_response'.import_status \notin {"finished", "failed"})
            => /\ import_pc' = "poll"
               /\ status_import' = "none"
               /\ import_exit' = -1]_vars
    /\ [][(ImportPollStep /\ ~import_response'.exc
           /\ import_response'.status_code # 200)
            => /\ import_pc' = "done"
               /\ status_import' \in {"False", "SystemExit"}]_vars
    /\ []((status_import \in {"True", "False"} /\ import_polls > 0)
            => \/ import_response.status_code # 200
               \/ import_response.import_status \in {"finished", "failed"})

\* C14 happens: every status check so far answered 200 without finished or
\* failed, and the import is still polling after the last check the bound
\* allows.
C14_Witness ==
    /\ import_pc = "poll"
    /\ import_polls = MaxImportPolls
    /\ import_response.status_code = 200
    /\ import_response.import_status = "scheduled"

\* C15: after a non-2xx answer to the submit no status check is made, after
\* a non-2xx answer to a status check no further one is made, and in both
\* cases the import operation returns False (the import command exits 1).
C15_Non2xxReturnsFailure ==
    (import_response # NoImportResponse /\ IsNon2xx(import_response))
      => /\ import_pc = "done"
         /\ status_import = "False"
         /\ impl = "Api" => import_exit = 1

\* C21: in a run each selected project gets at most one export-trigger
\* request; a status check is made only for a project whose trigger was
\* accepted; a download request is made only after a status check that
\* answered finished with a locator; and the requests follow the selection
\* order, none for a project after a request for a later one.
C21_OneExportPerProjectInOrder ==
    /\ [][(pc = "trigger" /\ nTrigger' = nTrigger + 1) => cur \notin triggered]_vars
    /\ [](nTrigger <= 1 /\ triggered \subseteq 1..cur)
    /\ [][nCheck' = nCheck + 1
            => (cur \in triggered /\ nTrigger = 1 /\ Is2xx(trigger_response))]_vars
    /\ [][nDownload' = nDownload + 1
            => /\ nCheck > 0
               /\ cur \in triggered
               /\ StatusOk(response)
               /\ response.export_status = "finished"
               /\ response.links]_vars
    /\ [][/\ last_request'.project >= last_request.project
          /\ last_request' # last_request => last_request'.project = cur]_vars

\* C21 happens: the export of the first project failed, the run went on to
\* the second project and has just sent its download request.
C21_Witness ==
    /\ cur = 2
    /\ nExportFailed = 1
    /\ triggered = {1, 2}
    /\ last_request = [kind |-> "download", project |-> 2]

\* C22: whatever the exclude patterns match, the Project Selector called on
\* a non-empty catalog returns normally, also when an exclude pattern
\* matches a catalog path that is not in the working list, and a path that
\* no include pattern matched is not in the returned selection.
C22_ExcludeNeverFails ==
    (pc # "start" /\ all_projects # <<>>)
      => /\ exit_kind # "ValueError"
         /\ \A p \in CatalogPaths :
              NInclude(p) = 0 => ~DictHas(export_projects, p)

\* C23: a project never receives more status checks than the configured
\* gitlab.max_tries_number, and a project whose status checks all answered
\* queued until the export was given up received exactly that many.
C23_ChecksBoundedByConfig ==
    /\ nCheck <= max_tries_number
    /\ (pc = "sleep" /\ allQueued /\ nCheck > 0) => nCheck = max_tries_number

\* C24: a run in which some operation failed never ends with an exit status
\* that the operating system reports as 0, whatever the number of failures.
C24_FailuresNeverExitZero ==
    (pc = "exit" /\ exit_kind = "SystemExit" /\ return_code > 0)
      => OsExitStatus(exit_status) # 0

====
